---------------------------- MODULE Spec2Model ----------------------------
(***************************************************************************)
(* The COLMAP reconstruction reader of crates/colmap-reader/src/lib.rs:    *)
(* the camera model registry, the three text decoders, the three binary    *)
(* decoders and the format dispatchers, driven by a caller that decodes    *)
(* one section from a text source, from a binary source and from a         *)
(* damaged variant of one of the two.                                      *)
(*                                                                         *)
(* Representation of values.                                               *)
(*   - a source is a sequence of bytes (0..255), text sources included;    *)
(*   - u8 and i32 values are integers;                                     *)
(*   - i64 and u64 values are 8-byte numerals, most significant byte       *)
(*     first (two's complement), because they exceed the integers of     *)
(*     TLC: reading a field little-endian reverses the bytes read,       *)
(*     reading it big-endian keeps them;                                   *)
(*   - an f64 is its IEEE-754 bit pattern as an 8-byte numeral, an f32 its *)
(*     bit pattern as a 4-byte numeral;                                    *)
(*   - a string is the sequence of its UTF-8 bytes.                        *)
(***************************************************************************)
EXTENDS Integers, Sequences, FiniteSets, TLC

\* ------------------------------------------------------------ bounds

\* The largest number of records of a section the caller encodes.
MaxRecords == 2

\* --------------------------------------------------- sequences, bytes

Reverse(s) == [i \in 1..Len(s) |-> s[Len(s) + 1 - i]]

Take(s, pos, n) == SubSeq(s, pos + 1, pos + n)

Avail(s, pos, n) == pos + n <= Len(s)

RECURSIVE Flatten(_)
Flatten(ss) == IF ss = <<>> THEN <<>> ELSE Head(ss) \o Flatten(Tail(ss))

None == [none |-> TRUE]

\* tokio::io::AsyncReadExt::read_u8
read_u8(b) == b[1]

\* tokio::io::AsyncReadExt::read_i32_le: the first byte read is the least
\* significant, the last one carries the sign.
read_i32_le(b) ==
    b[1] + 256 * b[2] + 65536 * b[3]
         + 16777216 * (IF b[4] >= 128 THEN b[4] - 256 ELSE b[4])

\* tokio::io::AsyncReadExt::read_u64_le: the numeral, most significant byte
\* first, of the bytes read least significant first.
read_u64_le(b) == Reverse(b)

\* tokio::io::AsyncReadExt::read_i64: big-endian, the first byte read is the
\* most significant byte of the value.
read_i64(b) == b

\* tokio::io::AsyncReadExt::read_f64_le: the bit pattern of the f64.
read_f64_le(b) == Reverse(b)

\* The iteration count of `for _ in 0..n` for a u64 n, as far as a source can
\* feed it: a count of 2^24 or more outlasts every source of the model.
LoopCount(n) ==
    IF \E i \in 1..5 : n[i] # 0 THEN 16777216
    ELSE 65536 * n[6] + 256 * n[7] + n[8]

\* `x as f32` for an f64 x: round to nearest, ties to even.  Results below
\* the smallest normal f32 are flushed to zero (no source of the model holds
\* such a value).
AsF32(p) ==
    LET sign == p[1] \div 128
        e11  == (p[1] % 128) * 16 + p[2] \div 16
        m23  == (p[2] % 16) * 524288 + p[3] * 2048 + p[4] * 8 + p[5] \div 32
        rem  == (p[5] % 32) * 16777216 + p[6] * 65536 + p[7] * 256 + p[8]
        mant0 == m23 = 0 /\ rem = 0
        up   == IF rem > 268435456 \/ (rem = 268435456 /\ m23 % 2 = 1)
                THEN 1 ELSE 0
        f    == (e11 - 896) * 8388608 + m23 + up
        Pack(v) == <<sign * 128 + v \div 16777216, (v \div 65536) % 256,
                     (v \div 256) % 256, v % 256>>
    IN  IF e11 = 2047
        THEN IF mant0 THEN Pack(2139095040) ELSE Pack(2143289344)
        ELSE IF e11 <= 896 THEN Pack(0)
        ELSE IF e11 >= 1151 \/ f >= 2139095040 THEN Pack(2139095040)
        ELSE Pack(f)

\* ------------------------------------------------------ text parsing

IsDigit(c) == c \in 48..57

IsWhitespace(c) == c \in {9, 10, 11, 12, 13, 32}

RECURSIVE DecValue(_)
DecValue(ds) ==
    IF ds = <<>> THEN 0
    ELSE 10 * DecValue(SubSeq(ds, 1, Len(ds) - 1)) + (ds[Len(ds)] - 48)

AllDigits(ds) == \A i \in 1..Len(ds) : IsDigit(ds[i])

\* <integer>::from_str: an optional sign ('-' only for a signed type), then at
\* least one digit, the value within [lo, hi].  Exact for tokens of at most
\* nine digits; a longer one is taken to overflow.
ParseInteger(s, signed, lo, hi) ==
    LET neg  == Len(s) > 0 /\ s[1] = 45
        plus == Len(s) > 0 /\ s[1] = 43
        ds   == IF neg \/ plus THEN Tail(s) ELSE s
        v    == IF neg THEN 0 - DecValue(ds) ELSE DecValue(ds)
    IN  IF (neg /\ ~signed) \/ ds = <<>> \/ ~AllDigits(ds) \/ Len(ds) > 9
        THEN None
        ELSE IF v < lo \/ v > hi THEN None ELSE [v |-> v]

\* The 8-byte numeral of an integer of 32 bits.
Numeral64(v) ==
    LET ext == IF v < 0 THEN 255 ELSE 0
    IN  <<ext, ext, ext, ext, (v \div 16777216) % 256, (v \div 65536) % 256,
          (v \div 256) % 256, v % 256>>

RECURSIVE Log2(_)
Log2(m) == IF m <= 1 THEN 0 ELSE 1 + Log2(m \div 2)

\* The f64 whose value is (-1)^sign * m / 2^d, kept to 20 fraction bits
\* (exact for 0 <= m < 2^21).
F64Bits(sign, m, d) ==
    IF m = 0 THEN <<sign * 128, 0, 0, 0, 0, 0, 0, 0>>
    ELSE LET e    == Log2(m)
             e11  == 1023 + e - d
             frac == IF e <= 20 THEN (m - 2^e) * 2^(20 - e)
                     ELSE (m - 2^e) \div 2^(e - 20)
         IN  <<sign * 128 + e11 \div 16, (e11 % 16) * 16 + frac \div 65536,
               (frac \div 256) % 256, frac % 256, 0, 0, 0, 0>>

\* f64::from_str on the decimal tokens of the model: an optional sign, digits
\* with an optional '.' and fraction, at least one digit.  Exponents, "inf"
\* and "nan" are outside the token alphabet of the model's sources.  The
\* value n / 10^d is exact when 5^d divides n; otherwise it is cut to ten
\* binary places.
ParseF64(s) ==
    LET neg   == Len(s) > 0 /\ s[1] = 45
        plus  == Len(s) > 0 /\ s[1] = 43
        body  == IF neg \/ plus THEN Tail(s) ELSE s
        dots  == {i \in 1..Len(body) : body[i] = 46}
        dot   == IF dots = {} THEN Len(body) + 1
                 ELSE CHOOSE i \in dots : \A j \in dots : i <= j
        ip    == SubSeq(body, 1, dot - 1)
        fp    == SubSeq(body, dot + 1, Len(body))
        d     == Len(fp)
        n     == DecValue(ip \o fp)
        exact == n % (5^d) = 0
    IN  IF Cardinality(dots) > 1 \/ ip \o fp = <<>> \/ ~AllDigits(ip \o fp)
           \/ Len(ip \o fp) > 6
        THEN None
        ELSE [v |-> IF exact THEN F64Bits(IF neg THEN 1 ELSE 0, n \div 5^d, d)
                    ELSE F64Bits(IF neg THEN 1 ELSE 0,
                                 (n * 1024) \div 10^d, 10)]

\* f32::from_str: the nearest f32, which for the decimal tokens of the model
\* (exact in 24 bits) is the f64 rounded once more.
ParseF32(s) ==
    LET x == ParseF64(s) IN IF x = None THEN None ELSE [v |-> AsF32(x.v)]

\* fn parse<T: FromStr>(s) -> io::Result<T>: InvalidData on any failure.
\* The target type is named by `ty`.
parse(ty, s) ==
    CASE ty = "i32" -> ParseInteger(s, TRUE, 0 - 2147483647 - 1, 2147483647)
      [] ty = "u8"  -> ParseInteger(s, FALSE, 0, 255)
      [] ty = "u64" ->
            LET r == ParseInteger(s, FALSE, 0, 2147483647)
            IN  IF r = None THEN None ELSE [v |-> Numeral64(r.v)]
      [] ty = "i64" ->
            LET r == ParseInteger(s, TRUE, 0 - 2147483647 - 1, 2147483647)
            IN  IF r = None THEN None ELSE [v |-> Numeral64(r.v)]
      [] ty = "f64" -> ParseF64(s)
      [] ty = "f32" -> ParseF32(s)

\* ------------------------------------------------- library: strings

Cont(s, i) == i <= Len(s) /\ s[i] \in 128..191

\* std::str::from_utf8 (validity) and the UTF-8 check of read_line.
RECURSIVE Utf8From(_, _)
Utf8From(s, i) ==
    IF i > Len(s) THEN TRUE
    ELSE LET b == s[i]
         IN  IF b < 128 THEN Utf8From(s, i + 1)
             ELSE IF b \in 194..223
                  THEN Cont(s, i + 1) /\ Utf8From(s, i + 2)
             ELSE IF b \in 224..239
                  THEN /\ Cont(s, i + 1) /\ Cont(s, i + 2)
                       /\ (b = 224 => s[i + 1] >= 160)
                       /\ (b = 237 => s[i + 1] <= 159)
                       /\ Utf8From(s, i + 3)
             ELSE IF b \in 240..244
                  THEN /\ Cont(s, i + 1) /\ Cont(s, i + 2) /\ Cont(s, i + 3)
                       /\ (b = 240 => s[i + 1] >= 144)
                       /\ (b = 244 => s[i + 1] <= 143)
                       /\ Utf8From(s, i + 4)
             ELSE FALSE

from_utf8(s) == Utf8From(s, 1)

\* AsyncBufReadExt::read_line from position pos: the bytes up to and
\* including the next '\n', or up to the end of the source; n = 0 at the end.
\* A line that is not UTF-8 is an InvalidData error.
read_line(src, pos) ==
    LET nls  == {i \in (pos + 1)..Len(src) : src[i] = 10}
        stop == IF nls = {} THEN Len(src)
                ELSE CHOOSE i \in nls : \A j \in nls : i <= j
        line == SubSeq(src, pos + 1, stop)
    IN  [n |-> stop - pos, line |-> line, pos |-> stop,
         err |-> ~from_utf8(line)]

\* AsyncBufReadExt::read_until(b'\0', ..) from position pos: the bytes up to
\* and including the next zero byte, or up to the end of the source (then
\* without a terminator, and none at all at the end).
read_until(src, pos) ==
    LET zs   == {i \in (pos + 1)..Len(src) : src[i] = 0}
        stop == IF zs = {} THEN Len(src)
                ELSE CHOOSE i \in zs : \A j \in zs : i <= j
    IN  [bytes |-> SubSeq(src, pos + 1, stop), pos |-> stop]

\* A decoder that takes no line for a comment.
starts_with_hash_never(line) == FALSE

\* str::starts_with('#')
starts_with_hash(line) == Len(line) > 0 /\ line[1] = 35

\* str::split_whitespace: the maximal runs of non-whitespace, in order.
split_whitespace(line) ==
    LET starts == {i \in 1..Len(line) :
                     /\ ~IsWhitespace(line[i])
                     /\ (i = 1 \/ IsWhitespace(line[i - 1]))}
        Last(i) == CHOOSE j \in i..Len(line) :
                     /\ \A k \in i..j : ~IsWhitespace(line[k])
                     /\ (j = Len(line) \/ IsWhitespace(line[j + 1]))
        Nth(k) == CHOOSE i \in starts :
                     Cardinality({j \in starts : j < i}) = k - 1
    IN  [k \in 1..Cardinality(starts) |-> SubSeq(line, Nth(k), Last(Nth(k)))]

\* The index of the first token of ts (taken from index `from` on) that does
\* not parse as types[its index], 0 when all parse.
FirstParseError(ts, types, from) ==
    LET bad == {k \in from..Len(ts) : parse(types[k], ts[k]) = None}
    IN  IF bad = {} THEN 0 ELSE CHOOSE k \in bad : \A j \in bad : k <= j

\* HashMap::insert: a later record replaces an earlier one of the same key.
Insert(m, key, rec) ==
    [k \in DOMAIN m \cup {key} |-> IF k = key THEN rec ELSE m[k]]

EmptyMap == [k \in {} |-> None]

\* ------------------------------------------- the camera model registry

Models ==
    {"SimplePinhole", "Pinhole", "SimpleRadial", "Radial", "OpenCV",
     "OpenCvFishEye", "FullOpenCV", "Fov", "SimpleRadialFisheye",
     "RadialFisheye", "ThinPrismFisheye"}

\* Option::None of the two lookups.
NotFound == "None"

from_id(id) ==
    CASE id = 0 -> "SimplePinhole"
      [] id = 1 -> "Pinhole"
      [] id = 2 -> "SimpleRadial"
      [] id = 3 -> "Radial"
      [] id = 4 -> "OpenCV"
      [] id = 5 -> "OpenCvFishEye"
      [] id = 6 -> "FullOpenCV"
      [] id = 7 -> "Fov"
      [] id = 8 -> "SimpleRadialFisheye"
      [] id = 9 -> "RadialFisheye"
      [] id = 10 -> "ThinPrismFisheye"
      [] OTHER -> NotFound

from_name(name) ==
    CASE name = <<83, 73, 77, 80, 76, 69, 95, 80, 73, 78, 72, 79, 76, 69>>
            -> "SimplePinhole"  \* "SIMPLE_PINHOLE"
      [] name = <<80, 73, 78, 72, 79, 76, 69>>
            -> "Pinhole"  \* "PINHOLE"
      [] name = <<83, 73, 77, 80, 76, 69, 95, 82, 65, 68, 73, 65, 76>>
            -> "SimpleRadial"  \* "SIMPLE_RADIAL"
      [] name = <<82, 65, 68, 73, 65, 76>>
            -> "Radial"  \* "RADIAL"
      [] name = <<79, 80, 69, 78, 67, 86>>
            -> "OpenCV"  \* "OPENCV"
      [] name = <<79, 80, 69, 78, 67, 86, 95, 70, 73, 83, 72, 69, 89, 69>>
            -> "OpenCvFishEye"  \* "OPENCV_FISHEYE"
      [] name = <<70, 85, 76, 76, 95, 79, 80, 69, 78, 67, 86>>
            -> "FullOpenCV"  \* "FULL_OPENCV"
      [] name = <<70, 79, 86>>
            -> "Fov"  \* "FOV"
      [] name = <<83, 73, 77, 80, 76, 69, 95, 82, 65, 68, 73, 65, 76, 95,
                  70, 73, 83, 72, 69, 89, 69>>
            -> "SimpleRadialFisheye"  \* "SIMPLE_RADIAL_FISHEYE"
      [] name = <<82, 65, 68, 73, 65, 76, 95, 70, 73, 83, 72, 69, 89, 69>>
            -> "RadialFisheye"  \* "RADIAL_FISHEYE"
      [] name = <<84, 72, 73, 78, 95, 80, 82, 73, 83, 77, 95, 70, 73, 83, 72,
                  69, 89, 69>>
            -> "ThinPrismFisheye"  \* "THIN_PRISM_FISHEYE"
      [] OTHER -> NotFound

\* The table with the arity of Radial taken for that of SimpleRadial.
num_params_radial4(model) ==
    CASE model = "SimplePinhole" -> 3
      [] model \in {"Pinhole", "SimpleRadial", "Radial"} -> 4
      [] model \in {"OpenCV", "OpenCvFishEye"} -> 8
      [] model \in {"FullOpenCV", "ThinPrismFisheye"} -> 12
      [] model \in {"Fov", "RadialFisheye"} -> 5
      [] model = "SimpleRadialFisheye" -> 4

num_params(model) ==
    CASE model = "SimplePinhole" -> 3
      [] model = "Pinhole" -> 4
      [] model = "SimpleRadial" -> 4
      [] model = "Radial" -> 5
      [] model = "OpenCV" -> 8
      [] model = "OpenCvFishEye" -> 8
      [] model = "FullOpenCV" -> 12
      [] model = "Fov" -> 5
      [] model = "SimpleRadialFisheye" -> 4
      [] model = "RadialFisheye" -> 5
      [] model = "ThinPrismFisheye" -> 12

\* ------------------------------------------------ one record, binary

\* What one step of a decoder yields: st is "Ok" (a record was decoded),
\* "Skip" (a comment line), "End" (the text source is exhausted), or how the
\* call ends: "UnexpectedEof", "InvalidData" (the two io::Error kinds) or
\* "Panic".  ints are the integer fields read, each with the bytes it was
\* read from.
Fail(st, ints) ==
    [st |-> st, pos |-> 0, key |-> None, rec |-> None, ints |-> ints]

Decoded(pos, key, rec, ints) ==
    [st |-> "Ok", pos |-> pos, key |-> key, rec |-> rec, ints |-> ints]

IntRead(ty, b, v) == [ty |-> ty, bytes |-> b, value |-> v]

\* The section's record count (the first read of each binary decoder).
BinaryCount(src) ==
    IF ~Avail(src, 0, 8) THEN Fail("UnexpectedEof", {})
    ELSE LET b == Take(src, 0, 8)
         IN  Decoded(8, None, read_u64_le(b),
                     {IntRead("u64", b, read_u64_le(b))})

\* The body of the loop of read_cameras_binary.
CameraBinaryRecord(src, p) ==
    IF ~Avail(src, p, 24) THEN Fail("UnexpectedEof", {})
    ELSE
      LET camera_id == read_i32_le(Take(src, p, 4))
          model_id  == read_i32_le(Take(src, p + 4, 4))
          width     == read_u64_le(Take(src, p + 8, 8))
          height    == read_u64_le(Take(src, p + 16, 8))
          model     == from_id(model_id)
          ints      == {IntRead("i32", Take(src, p, 4), camera_id),
                        IntRead("i32", Take(src, p + 4, 4), model_id),
                        IntRead("u64", Take(src, p + 8, 8), width),
                        IntRead("u64", Take(src, p + 16, 8), height)}
      IN  IF model = NotFound THEN Fail("InvalidData", ints)
          ELSE
            LET n == num_params(model)
            IN  IF ~Avail(src, p + 24, 8 * n)
                THEN Fail("UnexpectedEof", ints)
                ELSE Decoded(p + 24 + 8 * n, camera_id,
                       [id |-> camera_id, model |-> model, width |-> width,
                        height |-> height,
                        params |-> [i \in 1..n |->
                           read_f64_le(Take(src, p + 24 + 8 * (i - 1), 8))]],
                       ints)

\* The body of the loop of read_images_binary.  The name is what read_until
\* delivered without its last byte: `name_bytes.len() - 1` on an empty
\* name_bytes is a subtraction overflow (a panic in a debug build) or wraps
\* and indexes out of range (a panic in a release build).
ImageBinaryRecord(src, p) ==
    IF ~Avail(src, p, 64) THEN Fail("UnexpectedEof", {})
    ELSE
      LET F(k)      == AsF32(read_f64_le(Take(src, p + 4 + 8 * k, 8)))
          image_id  == read_i32_le(Take(src, p, 4))
          camera_id == read_i32_le(Take(src, p + 60, 4))
          nm        == read_until(src, p + 64)
          name      == SubSeq(nm.bytes, 1, Len(nm.bytes) - 1)
          q         == nm.pos
          ints0     == {IntRead("i32", Take(src, p, 4), image_id),
                        IntRead("i32", Take(src, p + 60, 4), camera_id)}
      IN  IF nm.bytes = <<>> THEN Fail("Panic", ints0)
          ELSE IF ~from_utf8(name) THEN Fail("InvalidData", ints0)
          ELSE IF ~Avail(src, q, 8) THEN Fail("UnexpectedEof", ints0)
          ELSE
            LET num_points2d == read_u64_le(Take(src, q, 8))
                n    == LoopCount(num_points2d)
                X(k) == AsF32(read_f64_le(Take(src, q + 8 + 24 * (k - 1), 8)))
                Y(k) == AsF32(read_f64_le(Take(src, q + 16 + 24 * (k - 1), 8)))
                IdB(k) == Take(src, q + 24 + 24 * (k - 1), 8)
                ints1 == ints0 \cup
                         {IntRead("u64", Take(src, q, 8), num_points2d)}
            IN  IF ~Avail(src, q + 8, 24 * n)
                THEN Fail("UnexpectedEof", ints1)
                ELSE Decoded(q + 8 + 24 * n, image_id,
                       [quat |-> [x |-> F(1), y |-> F(2), z |-> F(3),
                                  w |-> F(0)],
                        tvec |-> <<F(4), F(5), F(6)>>,
                        camera_id |-> camera_id,
                        name |-> name,
                        xys |-> [k \in 1..n |-> <<X(k), Y(k)>>],
                        point3d_ids |-> [k \in 1..n |-> read_i64(IdB(k))]],
                       ints1 \cup
                       {IntRead("i64", IdB(k), read_i64(IdB(k))) : k \in 1..n})

\* The body of the loop of read_points3d_binary.
PointBinaryRecord(src, p) ==
    IF ~Avail(src, p, 51) THEN Fail("UnexpectedEof", {})
    ELSE
      LET point3d_id   == read_i64(Take(src, p, 8))
          F(k)         == AsF32(read_f64_le(Take(src, p + 8 + 8 * k, 8)))
          rgb          == <<read_u8(Take(src, p + 32, 1)),
                            read_u8(Take(src, p + 33, 1)),
                            read_u8(Take(src, p + 34, 1))>>
          error        == read_f64_le(Take(src, p + 35, 8))
          track_length == read_u64_le(Take(src, p + 43, 8))
          n            == LoopCount(track_length)
          ImB(k)       == Take(src, p + 51 + 8 * (k - 1), 4)
          IxB(k)       == Take(src, p + 55 + 8 * (k - 1), 4)
          ints         == {IntRead("i64", Take(src, p, 8), point3d_id),
                           IntRead("u64", Take(src, p + 43, 8), track_length)}
      IN  IF ~Avail(src, p + 51, 8 * n) THEN Fail("UnexpectedEof", ints)
          ELSE Decoded(p + 51 + 8 * n, point3d_id,
                 [xyz |-> <<F(0), F(1), F(2)>>,
                  rgb |-> rgb,
                  error |-> error,
                  image_ids |-> [k \in 1..n |-> read_i32_le(ImB(k))],
                  point2d_idxs |-> [k \in 1..n |-> read_i32_le(IxB(k))]],
                 ints \cup
                 {IntRead("i32", ImB(k), read_i32_le(ImB(k))) : k \in 1..n}
                 \cup
                 {IntRead("i32", IxB(k), read_i32_le(IxB(k))) : k \in 1..n})

\* -------------------------------------------------- one record, text

Skip(pos) ==
    [st |-> "Skip", pos |-> pos, key |-> None, rec |-> None, ints |-> {}]

End(pos) ==
    [st |-> "End", pos |-> pos, key |-> None, rec |-> None, ints |-> {}]

\* A decoder without the check of the parameter count.
ParamCountUnchecked(params, model) == TRUE

\* read_cameras_text: `params.len() != model.num_params()` is an error.
ParamCountOk(params, model) == Len(params) = num_params(model)

\* A decoder without the check of the last chunk of the track tail.
TrackChunksUnchecked(tail) == TRUE

\* read_points3d_text: a chunk of the track tail shorter than 2 is an error.
TrackChunksOk(tail) == Len(tail) % 2 = 0

\* The token types of a camera line, an image's first line, an image's
\* second line and a point line, by token index ("name" is kept as text).
CameraTypes(k) ==
    IF k = 1 THEN "i32" ELSE IF k \in {3, 4} THEN "u64" ELSE "f64"

ImageTypes(k) == IF k \in {1, 9} THEN "i32" ELSE "f32"

ObservationTypes(k) == IF k % 3 = 0 THEN "i64" ELSE "f32"

PointTypes(k) ==
    IF k = 1 THEN "i64" ELSE IF k \in 2..4 THEN "f32"
    ELSE IF k \in 5..7 THEN "u8" ELSE IF k = 8 THEN "f64" ELSE "i32"

\* One pass of the loop of read_cameras_text, reading the line at p.
CameraTextLine(src, p) ==
    LET r     == read_line(src, p)
        parts == split_whitespace(r.line)
        P(k)  == parse(CameraTypes(k), parts[k])
        model == from_name(parts[2])
        params == [i \in 1..(Len(parts) - 4) |-> P(i + 4).v]
    IN  IF r.err THEN Fail("InvalidData", {})
        ELSE IF r.n = 0 THEN End(p)
        ELSE IF starts_with_hash(r.line) THEN Skip(r.pos)
        ELSE IF Len(parts) < 4 THEN Fail("InvalidData", {})
        ELSE IF P(1) = None THEN Fail("InvalidData", {})
        ELSE IF model = NotFound THEN Fail("InvalidData", {})
        ELSE IF P(3) = None \/ P(4) = None THEN Fail("InvalidData", {})
        ELSE IF \E k \in 5..Len(parts) : P(k) = None
             THEN Fail("InvalidData", {})
        ELSE IF ~ParamCountOk(params, model) THEN Fail("InvalidData", {})
        ELSE Decoded(r.pos, P(1).v,
               [id |-> P(1).v, model |-> model, width |-> P(3).v,
                height |-> P(4).v, params |-> params], {})

\* One pass of the loop of read_images_text, reading the line at p and, for a
\* record, the line after it.  elems[k] beyond the tokens of the line, and
\* chunk[1] or chunk[2] beyond a short last chunk, index out of bounds: a
\* panic, reached once every token before it has parsed.
ImageTextLines(src, p) ==
    LET r      == read_line(src, p)
        elems  == split_whitespace(r.line)
        E(k)   == parse(ImageTypes(k), elems[k]).v
        bad    == FirstParseError(
                    SubSeq(elems, 1, IF Len(elems) < 9 THEN Len(elems) ELSE 9),
                    [k \in 1..9 |-> ImageTypes(k)], 1)
        r2     == read_line(src, r.pos)
        obs    == split_whitespace(r2.line)
        O(k)   == parse(ObservationTypes(k), obs[k]).v
        bad2   == FirstParseError(
                    obs, [k \in 1..Len(obs) |-> ObservationTypes(k)], 1)
        n      == Len(obs) \div 3
    IN  IF r.err THEN Fail("InvalidData", {})
        ELSE IF r.n = 0 THEN End(p)
        ELSE IF r.line = <<>> \/ starts_with_hash(r.line) THEN Skip(r.pos)
        ELSE IF bad # 0 THEN Fail("InvalidData", {})
        ELSE IF Len(elems) < 10 THEN Fail("Panic", {})
        ELSE IF r2.err THEN Fail("InvalidData", {})
        ELSE IF bad2 # 0 THEN Fail("InvalidData", {})
        ELSE IF Len(obs) % 3 # 0 THEN Fail("Panic", {})
        ELSE Decoded(r2.pos, E(1),
               [quat |-> [x |-> E(3), y |-> E(4), z |-> E(5), w |-> E(2)],
                tvec |-> <<E(6), E(7), E(8)>>,
                camera_id |-> E(9),
                name |-> elems[10],
                xys |-> [k \in 1..n |-> <<O(3 * k - 2), O(3 * k - 1)>>],
                point3d_ids |-> [k \in 1..n |-> O(3 * k)]], {})

\* One pass of the loop of read_points3d_text, reading the line at p.
PointTextLine(src, p) ==
    LET r     == read_line(src, p)
        parts == split_whitespace(r.line)
        P(k)  == parse(PointTypes(k), parts[k])
        tail  == SubSeq(parts, 9, Len(parts))
    IN  IF r.err THEN Fail("InvalidData", {})
        ELSE IF r.n = 0 THEN End(p)
        ELSE IF starts_with_hash(r.line) THEN Skip(r.pos)
        ELSE IF Len(parts) < 8 THEN Fail("InvalidData", {})
        ELSE IF \E k \in 1..8 : P(k) = None THEN Fail("InvalidData", {})
        ELSE IF ~TrackChunksOk(tail) THEN Fail("InvalidData", {})
        ELSE IF \E k \in 9..Len(parts) : P(k) = None
             THEN Fail("InvalidData", {})
        ELSE Decoded(r.pos, P(1).v,
               [xyz |-> <<P(2).v, P(3).v, P(4).v>>,
                rgb |-> <<P(5).v, P(6).v, P(7).v>>,
                error |-> P(8).v,
                image_ids |->
                    [k \in 1..((Len(tail) + 1) \div 2) |-> P(7 + 2 * k).v],
                point2d_idxs |->
                    [k \in 1..(Len(tail) \div 2) |-> P(8 + 2 * k).v]], {})

\* ------------------------------------------ the sources of the caller

\* The two encodings of a section (spec 4.2 and 4.3), from which the caller
\* builds its sources.  A logical float is given in halves (3 is 1.5), so
\* that both encodings hold it exactly.

RECURSIVE Dec(_)
Dec(v) == IF v < 10 THEN <<48 + v>> ELSE Dec(v \div 10) \o <<48 + (v % 10)>>

Abs(v) == IF v < 0 THEN 0 - v ELSE v

IntTok(v) == IF v < 0 THEN <<45>> \o Dec(0 - v) ELSE Dec(v)

HalfTok(h) ==
    (IF h < 0 THEN <<45>> ELSE <<>>) \o Dec(Abs(h) \div 2)
        \o (IF Abs(h) % 2 = 1 THEN <<46, 53>> ELSE <<>>)

I32LE(v) ==
    <<v % 256, (v \div 256) % 256, (v \div 65536) % 256,
      (v \div 16777216) % 256>>

I64LE(v) == Reverse(Numeral64(v))

F64LE(h) == Reverse(F64Bits(IF h < 0 THEN 1 ELSE 0, Abs(h), 1))

\* The symbolic names of the models, by id + 1.
ModelNames ==
    << <<83, 73, 77, 80, 76, 69, 95, 80, 73, 78, 72, 79, 76, 69>>,
       <<80, 73, 78, 72, 79, 76, 69>>,
       <<83, 73, 77, 80, 76, 69, 95, 82, 65, 68, 73, 65, 76>>,
       <<82, 65, 68, 73, 65, 76>>,
       <<79, 80, 69, 78, 67, 86>>,
       <<79, 80, 69, 78, 67, 86, 95, 70, 73, 83, 72, 69, 89, 69>>,
       <<70, 85, 76, 76, 95, 79, 80, 69, 78, 67, 86>>,
       <<70, 79, 86>>,
       <<83, 73, 77, 80, 76, 69, 95, 82, 65, 68, 73, 65, 76, 95,
         70, 73, 83, 72, 69, 89, 69>>,
       <<82, 65, 68, 73, 65, 76, 95, 70, 73, 83, 72, 69, 89, 69>>,
       <<84, 72, 73, 78, 95, 80, 82, 73, 83, 77, 95, 70, 73, 83, 72,
         69, 89, 69>> >>

\* The parameter counts of spec 3, by id + 1.
SpecParamCounts == <<3, 4, 4, 5, 8, 8, 12, 5, 4, 5, 12>>

\* The logical records the caller encodes.  The third camera repeats the id
\* of the first; the second image's name is not ASCII ("é").
CameraCatalog ==
    << [id |-> 1, model |-> 0, width |-> 4, height |-> 3,
        params |-> <<100, 4, 3>>],
       [id |-> 2, model |-> 1, width |-> 300, height |-> 2,
        params |-> <<5, 6, 0, -7>>],
       [id |-> 1, model |-> 3, width |-> 8, height |-> 6,
        params |-> <<9, 4, 3, 1, -1>>] >>

ImageCatalog ==
    << [id |-> 1, q |-> <<2, 0, 0, 0>>, t |-> <<1, -2, 3>>, camera_id |-> 1,
        name |-> <<97>>, obs |-> <<>>],
       [id |-> 2, q |-> <<1, 2, 3, 4>>, t |-> <<0, 0, 5>>, camera_id |-> 2,
        name |-> <<195, 169>>,
        obs |-> << [x |-> 3, y |-> 4, id |-> 258] >>],
       [id |-> 3, q |-> <<0, 2, 0, 0>>, t |-> <<4, 4, 4>>, camera_id |-> 1,
        name |-> <<98, 46, 112>>,
        obs |-> << [x |-> 1, y |-> 2, id |-> -1],
                   [x |-> 7, y |-> 8, id |-> 5] >>] >>

PointCatalog ==
    << [id |-> 1, xyz |-> <<1, 2, 3>>, rgb |-> <<255, 0, 7>>, error |-> 1,
        track |-> <<>>],
       [id |-> 258, xyz |-> <<-4, 0, 5>>, rgb |-> <<1, 2, 3>>, error |-> 3,
        track |-> << <<1, 0>> >>],
       [id |-> 5, xyz |-> <<0, 0, 0>>, rgb |-> <<0, 0, 0>>, error |-> 0,
        track |-> << <<1, 0>>, <<2, 257>> >>] >>

Kinds == {"cameras", "images", "points3d"}

Catalog(k) ==
    CASE k = "cameras" -> CameraCatalog
      [] k = "images" -> ImageCatalog
      [] k = "points3d" -> PointCatalog

\* The sections the caller encodes: at most MaxRecords catalog records.
Sections(k) == UNION {[1..n -> DOMAIN Catalog(k)] : n \in 0..MaxRecords}

\* The lines of the text encoding, each a sequence of tokens.
CameraLines(c) ==
    << <<IntTok(c.id), ModelNames[c.model + 1], IntTok(c.width),
         IntTok(c.height)>>
       \o [i \in 1..Len(c.params) |-> HalfTok(c.params[i])] >>

ImageLines(im) ==
    << <<IntTok(im.id)>> \o [i \in 1..4 |-> HalfTok(im.q[i])]
         \o [i \in 1..3 |-> HalfTok(im.t[i])]
         \o <<IntTok(im.camera_id), im.name>>,
       Flatten([i \in 1..Len(im.obs) |->
           <<HalfTok(im.obs[i].x), HalfTok(im.obs[i].y),
             IntTok(im.obs[i].id)>>]) >>

PointLines(pt) ==
    << <<IntTok(pt.id)>> \o [i \in 1..3 |-> HalfTok(pt.xyz[i])]
         \o [i \in 1..3 |-> IntTok(pt.rgb[i])] \o <<HalfTok(pt.error)>>
         \o Flatten([i \in 1..Len(pt.track) |->
                <<IntTok(pt.track[i][1]), IntTok(pt.track[i][2])>>]) >>

TextLines(k, sec) ==
    Flatten([i \in 1..Len(sec) |->
        CASE k = "cameras" -> CameraLines(CameraCatalog[sec[i]])
          [] k = "images" -> ImageLines(ImageCatalog[sec[i]])
          [] k = "points3d" -> PointLines(PointCatalog[sec[i]])])

\* A line's tokens separated by one space, and its line feed.
RenderLine(toks) ==
    Flatten([i \in 1..Len(toks) |->
        IF i = 1 THEN toks[i] ELSE <<32>> \o toks[i]]) \o <<10>>

RenderText(lines) == Flatten([i \in 1..Len(lines) |-> RenderLine(lines[i])])

\* The records of the binary encoding.
CameraBytes(c) ==
    I32LE(c.id) \o I32LE(c.model) \o I64LE(c.width) \o I64LE(c.height)
        \o Flatten([i \in 1..Len(c.params) |-> F64LE(c.params[i])])

ImageBytes(im) ==
    I32LE(im.id) \o Flatten([i \in 1..4 |-> F64LE(im.q[i])])
        \o Flatten([i \in 1..3 |-> F64LE(im.t[i])]) \o I32LE(im.camera_id)
        \o im.name \o <<0>> \o I64LE(Len(im.obs))
        \o Flatten([i \in 1..Len(im.obs) |->
               F64LE(im.obs[i].x) \o F64LE(im.obs[i].y)
                   \o I64LE(im.obs[i].id)])

PointBytes(pt) ==
    I64LE(pt.id) \o Flatten([i \in 1..3 |-> F64LE(pt.xyz[i])]) \o pt.rgb
        \o F64LE(pt.error) \o I64LE(Len(pt.track))
        \o Flatten([i \in 1..Len(pt.track) |->
               I32LE(pt.track[i][1]) \o I32LE(pt.track[i][2])])

BinaryRecords(k, sec) ==
    [i \in 1..Len(sec) |->
        CASE k = "cameras" -> CameraBytes(CameraCatalog[sec[i]])
          [] k = "images" -> ImageBytes(ImageCatalog[sec[i]])
          [] k = "points3d" -> PointBytes(PointCatalog[sec[i]])]

RenderBinary(recs) == I64LE(Len(recs)) \o Flatten(recs)

\* The damage the caller does to a source.  Text: a comment line put at a
\* line boundary, a line cut to its first j tokens, a token appended to a
\* line, a token replaced by "x", a camera's model name replaced.  Binary:
\* the source cut to its first i bytes, a camera's model id replaced.
CommentLine == << <<35>>, <<99>> >>

ModelIdProbes == (0 - 1)..11 \cup {99}

NameProbes == ModelNames \o << <<112, 105, 110, 104, 111, 108, 101>> >>

Undamaged(fmt) == [fmt |-> fmt, mut |-> "none", i |-> 0, j |-> 0]

Damages(k, sec) ==
    LET lines == TextLines(k, sec)
        bin   == RenderBinary(BinaryRecords(k, sec))
        V(fmt, mut, i, j) == [fmt |-> fmt, mut |-> mut, i |-> i, j |-> j]
    IN  {V("binary", "truncate", p, 0) : p \in 0..(Len(bin) - 1)}
        \cup {V("text", "comment", i, 0) : i \in 0..Len(lines)}
        \cup {V("text", "extra", i, 0) : i \in 1..Len(lines)}
        \cup UNION {{V("text", "keep", i, j) : j \in 0..(Len(lines[i]) - 1)}
                        : i \in 1..Len(lines)}
        \cup UNION {{V("text", "garble", i, j) : j \in 1..Len(lines[i])}
                        : i \in 1..Len(lines)}
        \cup (IF k # "cameras" THEN {}
              ELSE {V("binary", "model_id", i, v) :
                        i \in 1..Len(sec), v \in ModelIdProbes}
                   \cup {V("text", "model_name", i, j) :
                        i \in 1..Len(sec), j \in 1..Len(NameProbes)})

DamagedLines(lines, v) ==
    CASE v.mut = "comment" ->
            SubSeq(lines, 1, v.i) \o <<CommentLine>>
                \o SubSeq(lines, v.i + 1, Len(lines))
      [] v.mut = "keep" ->
            [lines EXCEPT ![v.i] = SubSeq(lines[v.i], 1, v.j)]
      [] v.mut = "extra" -> [lines EXCEPT ![v.i] = Append(lines[v.i], <<55>>)]
      [] v.mut = "garble" -> [lines EXCEPT ![v.i][v.j] = <<120>>]
      [] v.mut = "model_name" -> [lines EXCEPT ![v.i][2] = NameProbes[v.j]]
      [] OTHER -> lines

DamagedBinary(recs, v) ==
    CASE v.mut = "truncate" -> SubSeq(RenderBinary(recs), 1, v.i)
      [] v.mut = "model_id" ->
            RenderBinary([recs EXCEPT ![v.i] =
                SubSeq(recs[v.i], 1, 4) \o I32LE(v.j)
                    \o SubSeq(recs[v.i], 9, Len(recs[v.i]))])
      [] OTHER -> RenderBinary(recs)

Source(k, sec, v) ==
    IF v.fmt = "text" THEN RenderText(DamagedLines(TextLines(k, sec), v))
    ELSE DamagedBinary(BinaryRecords(k, sec), v)

\* ------------------------------------------------------ the state

VARIABLES
    kind,       \* the section the caller decodes
    section,    \* the logical records it encoded (catalog indices)
    phase,      \* the caller's call: "start", "text", "binary", "damaged"
    damage,     \* what the caller did to the source of the call
    binary,     \* the mode flag handed to read_cameras/read_images/read_points3d
    src,        \* the bytes of the reader
    pos,        \* the bytes the decoder has consumed
    left,       \* binary: records still to decode (NotRead before the count)
    map,        \* the HashMap the decoder is building
    decoded,    \* the records it has inserted
    ints,       \* the integer fields its last step read
    status,     \* "Idle", "Running", or how the call ended
    returned,   \* <<m>> once the call returned Ok(m), <<>> otherwise
    done        \* the results of the two calls on undamaged sources

vars ==
    <<kind, section, phase, damage, binary, src, pos, left, map, decoded,
      ints, status, returned, done>>

NotRead == 0 - 1

Ended == {"Ok", "UnexpectedEof", "InvalidData", "Panic"}

NoResult == [status |-> "Idle", returned |-> <<>>]

Init ==
    /\ kind \in Kinds
    /\ section \in Sections(kind)
    /\ phase = "start"
    /\ damage = Undamaged("text")
    /\ binary = FALSE
    /\ src = <<>>
    /\ pos = 0
    /\ left = NotRead
    /\ map = EmptyMap
    /\ decoded = 0
    /\ ints = {}
    /\ status = "Idle"
    /\ returned = <<>>
    /\ done = [text |-> NoResult, binary |-> NoResult]

\* ------------------------------------------------- the dispatchers

\* The caller hands a fresh reader to a dispatcher, which enters the text or
\* the binary decoder; the decoder starts with an empty map.
Enter(ph, v) ==
    /\ phase' = ph
    /\ damage' = v
    /\ binary' = (v.fmt = "binary")
    /\ src' = Source(kind, section, v)
    /\ pos' = 0
    /\ left' = NotRead
    /\ map' = EmptyMap
    /\ decoded' = 0
    /\ ints' = {}
    /\ status' = "Running"
    /\ returned' = <<>>

\* The caller's three calls: the text source, the binary source, then one
\* damaged source.  It keeps the results of the first two.
Call ==
    \/ /\ phase = "start"
       /\ Enter("text", Undamaged("text"))
       /\ UNCHANGED done
    \/ /\ phase = "text" /\ status \in Ended
       /\ Enter("binary", Undamaged("binary"))
       /\ done' = [done EXCEPT !.text =
                       [status |-> status, returned |-> returned]]
    \/ /\ phase = "binary" /\ status \in Ended
       /\ \E v \in Damages(kind, section) : Enter("damaged", v)
       /\ done' = [done EXCEPT !.binary =
                       [status |-> status, returned |-> returned]]

read_cameras == kind = "cameras" /\ Call /\ UNCHANGED <<kind, section>>

read_images == kind = "images" /\ Call /\ UNCHANGED <<kind, section>>

read_points3d == kind = "points3d" /\ Call /\ UNCHANGED <<kind, section>>

\* --------------------------------------------------- the decoders

\* What the result r of one pass does to a text decoder: the loop ends with
\* Ok(map) at the end of the source, goes on after a comment or a record,
\* and `?` returns the error of anything else.
TextPass(r) ==
    /\ status' = CASE r.st = "End" -> "Ok"
                   [] r.st \in {"Skip", "Ok"} -> "Running"
                   [] OTHER -> r.st
    /\ returned' = IF r.st = "End" THEN <<map>> ELSE <<>>
    /\ map' = IF r.st = "Ok" THEN Insert(map, r.key, r.rec) ELSE map
    /\ decoded' = IF r.st = "Ok" THEN decoded + 1 ELSE decoded
    /\ pos' = IF r.st \in {"Skip", "Ok"} THEN r.pos ELSE pos
    /\ ints' = r.ints
    /\ UNCHANGED <<kind, section, phase, damage, binary, src, left, done>>

\* What the result r of one step does to a binary decoder: the count sets
\* the number of passes, a record is inserted, the loop ends with Ok(map)
\* when no pass is left, and `?` returns the error of anything else.
BinaryPass(r) ==
    LET n == IF r.st # "Ok" THEN left
             ELSE IF left = NotRead THEN LoopCount(r.rec) ELSE left - 1
    IN  /\ left' = n
        /\ map' = IF r.st = "Ok" /\ left # NotRead
                  THEN Insert(map, r.key, r.rec) ELSE map
        /\ decoded' = IF r.st = "Ok" /\ left # NotRead
                      THEN decoded + 1 ELSE decoded
        /\ pos' = IF r.st = "Ok" THEN r.pos ELSE pos
        /\ status' = IF r.st # "Ok" THEN r.st
                     ELSE IF n = 0 THEN "Ok" ELSE "Running"
        /\ returned' = IF r.st = "Ok" /\ n = 0 THEN <<map'>> ELSE <<>>
        /\ ints' = r.ints
        /\ UNCHANGED <<kind, section, phase, damage, binary, src, done>>

read_cameras_text ==
    /\ kind = "cameras" /\ ~binary /\ status = "Running"
    /\ TextPass(CameraTextLine(src, pos))

read_cameras_binary ==
    /\ kind = "cameras" /\ binary /\ status = "Running"
    /\ BinaryPass(IF left = NotRead THEN BinaryCount(src)
                  ELSE CameraBinaryRecord(src, pos))

read_images_text ==
    /\ kind = "images" /\ ~binary /\ status = "Running"
    /\ TextPass(ImageTextLines(src, pos))

read_images_binary ==
    /\ kind = "images" /\ binary /\ status = "Running"
    /\ BinaryPass(IF left = NotRead THEN BinaryCount(src)
                  ELSE ImageBinaryRecord(src, pos))

read_points3d_text ==
    /\ kind = "points3d" /\ ~binary /\ status = "Running"
    /\ TextPass(PointTextLine(src, pos))

read_points3d_binary ==
    /\ kind = "points3d" /\ binary /\ status = "Running"
    /\ BinaryPass(IF left = NotRead THEN BinaryCount(src)
                  ELSE PointBinaryRecord(src, pos))

Next ==
    \/ read_cameras
    \/ read_images
    \/ read_points3d
    \/ read_cameras_text
    \/ read_cameras_binary
    \/ read_images_text
    \/ read_images_binary
    \/ read_points3d_text
    \/ read_points3d_binary

Spec == Init /\ [][Next]_vars

\* ------------------------------------------ vocabulary of the claims

Finished == status \in Ended

Damaged(mut) == phase = "damaged" /\ damage.mut = mut

\* The lines of a text source, without their line feeds.
RECURSIVE LinesFrom(_, _)
LinesFrom(s, p) ==
    LET r == read_line(s, p)
    IN  IF r.n = 0 THEN <<>>
        ELSE <<SelectSeq(r.line, LAMBDA c : c # 10)>> \o LinesFrom(s, r.pos)

\* The token lines of the source of the current call, when it is a text.
SourceLines == DamagedLines(TextLines(kind, section), damage)

\* The record (1, 2, ...) that line i of the undamaged text belongs to.
RecordOfLine(i) == IF kind = "images" THEN (i + 1) \div 2 ELSE i

\* Line i of the undamaged text opens a record (for an image: is not its
\* observation line).
FirstLine(i) == kind = "images" => i % 2 = 1

\* The tokens every record's first line must have.
FixedTokens == CASE kind = "cameras" -> 4 [] kind = "images" -> 10
                 [] kind = "points3d" -> 8

\* The records of the undamaged binary source that end within its first p
\* bytes.
WholeRecords(p) ==
    LET recs == BinaryRecords(kind, section)
        EndOf(r) == 8 + Len(Flatten(SubSeq(recs, 1, r)))
    IN  Cardinality({r \in 1..Len(recs) : EndOf(r) <= p})

\* Byte k (1 is the least significant) of an integer field's value.
ByteOf(r, k) ==
    IF r.ty = "i32" THEN (r.value \div (256 ^ (k - 1))) % 256
    ELSE r.value[Len(r.value) + 1 - k]

\* (C1) Every multi-byte integer field a binary decoder reads has the value
\* whose least significant byte is the first byte read, whose next byte is
\* the second byte read, and so on.
C1_LittleEndian ==
    \A r \in ints : \A k \in 1..Len(r.bytes) : ByteOf(r, k) = r.bytes[k]

\* (C2) A text image record whose second line has a number of tokens that is
\* no multiple of 3 ends read_images(.., false) with InvalidData: no mapping,
\* no panic.
C2_ShortObservationGroup ==
    ( /\ kind = "images" /\ phase = "damaged" /\ damage.fmt = "text"
      /\ damage.mut \in {"keep", "extra"} /\ damage.i % 2 = 0
      /\ Len(SourceLines[damage.i]) % 3 # 0
      /\ Finished )
    => status = "InvalidData" /\ returned = <<>>

\* (C3) A binary source that ends before the declared records are read ends
\* the call with an unexpected-end-of-input failure: no mapping, no
\* InvalidData, no panic.
C3_TruncatedIsIoFailure ==
    (Damaged("truncate") /\ Finished)
    => status = "UnexpectedEof" /\ returned = <<>>

\* (C4) A decode call is all-or-nothing.  A mapping is returned only when
\* every record of the section was decoded; otherwise the call returns an
\* error and no mapping, having stopped at the first invalid record, with
\* exactly the records before it decoded.
C4_AllOrNothing ==
    Finished =>
      /\ status = "Ok" =>
           /\ returned = <<map>>
           /\ IF binary THEN decoded = LoopCount(read_u64_le(Take(src, 0, 8)))
              ELSE pos = Len(src)
      /\ status # "Ok" =>
           /\ status \in {"InvalidData", "UnexpectedEof"}
           /\ returned = <<>>
           /\ Damaged("truncate") => decoded = WholeRecords(damage.i)
           /\ (phase = "damaged" /\ damage.mut \in {"keep", "extra", "garble"})
                 => decoded = RecordOfLine(damage.i) - 1

\* The part of (C4) that concerns the mapping alone: a call that does not
\* end Ok returns no mapping, and one that ends Ok has decoded every record.
NoPartialMapping ==
    Finished =>
      /\ status # "Ok" => returned = <<>>
      /\ status = "Ok" =>
           /\ returned = <<map>>
           /\ IF binary THEN decoded = LoopCount(read_u64_le(Take(src, 0, 8)))
              ELSE pos = Len(src)

\* Two mappings agree in everything but the precision of the float fields of
\* positions and observations.
SameMapping(a, b) ==
    /\ DOMAIN a = DOMAIN b
    /\ \A k \in DOMAIN a :
         CASE kind = "cameras" -> a[k] = b[k]
           [] kind = "images" ->
                /\ a[k].camera_id = b[k].camera_id
                /\ a[k].name = b[k].name
                /\ a[k].quat = b[k].quat
                /\ a[k].point3d_ids = b[k].point3d_ids
                /\ Len(a[k].xys) = Len(b[k].xys)
           [] kind = "points3d" ->
                /\ a[k].rgb = b[k].rgb
                /\ a[k].error = b[k].error
                /\ a[k].image_ids = b[k].image_ids
                /\ a[k].point2d_idxs = b[k].point2d_idxs

\* (C5) The text and the binary encoding of the same records decode to equal
\* mappings.
C5_CrossFormat ==
    (done.text.status \in Ended /\ done.binary.status \in Ended)
    => /\ done.text.status = "Ok" /\ done.binary.status = "Ok"
       /\ SameMapping(done.text.returned[1], done.binary.returned[1])

CameraArity(m) ==
    \A k \in DOMAIN m : Len(m[k].params) = num_params(m[k].model)

\* A camera line of the source whose tokens after the fourth are not as many
\* as its model's parameters.
WrongArityLine ==
    \E i \in 1..Len(LinesFrom(src, 0)) :
        LET parts == split_whitespace(LinesFrom(src, 0)[i])
        IN  /\ ~starts_with_hash(LinesFrom(src, 0)[i])
            /\ Len(parts) >= 4
            /\ from_name(parts[2]) # NotFound
            /\ Len(parts) - 4 # num_params(from_name(parts[2]))

\* (C6) Every camera of the map of read_cameras, while it is built and when
\* it is returned, has as many params as its model says; a text camera line
\* with another number of tokens after the fourth ends the call with
\* InvalidData and no mapping.
C6_CameraParams ==
    kind = "cameras" =>
      /\ CameraArity(map)
      /\ returned # <<>> => CameraArity(returned[1])
      /\ (~binary /\ Finished /\ WrongArityLine)
            => status = "InvalidData" /\ returned = <<>>

C6_Witness ==
    /\ kind = "cameras" /\ ~binary /\ Damaged("extra")
    /\ WrongArityLine /\ status = "InvalidData" /\ decoded = 1

\* (C7, as stated) A comment line put at any line boundary of a valid text
\* source leaves the result of the decode unchanged.
C7_CommentAnywhere ==
    (Damaged("comment") /\ Finished)
    => status = done.text.status /\ returned = done.text.returned

\* (C7, amended) A comment line put at a line boundary of a valid text
\* source leaves the result unchanged, unless it is put between the two
\* lines of an image record: there it is read as the image's observation
\* line and the call ends with InvalidData.
C7_CommentAtRecordBoundary ==
    (Damaged("comment") /\ Finished) =>
      IF kind = "images" /\ damage.i % 2 = 1
      THEN status = "InvalidData" /\ returned = <<>>
      ELSE /\ done.text.status = "Ok"
           /\ status = done.text.status /\ returned = done.text.returned

C7_Witness ==
    /\ kind = "images" /\ Damaged("comment") /\ damage.i = 2
    /\ Len(section) = 2 /\ status = "Ok" /\ decoded = 2

\* (C8) In every text decoder a record's first line with fewer than its
\* fixed tokens (4, 10, 8; a blank line included), or a token that is not a
\* number where one is expected, ends the read with InvalidData: no mapping,
\* no panic.
C8_MissingOrBadToken ==
    ( /\ phase = "damaged" /\ damage.fmt = "text" /\ Finished
      /\ \/ /\ damage.mut = "keep" /\ FirstLine(damage.i)
            /\ damage.j < FixedTokens
         \/ /\ damage.mut = "garble"
            /\ ~(kind = "cameras" /\ damage.j = 2)
            /\ ~(kind = "images" /\ FirstLine(damage.i) /\ damage.j >= 10) )
    => status = "InvalidData" /\ returned = <<>>

\* (C9) The registry is total and exact on the ids 0..10: from_id finds a
\* model exactly for them, distinct ids have distinct models, the parameter
\* counts are 3,4,4,5,8,8,12,5,4,5,12, from_name of a model's name finds the
\* model of its id, and no other id or name is found: a binary camera record
\* with another model id, and a text camera line with another model name,
\* end the call with InvalidData.
C9_Registry ==
    /\ \A i \in ModelIdProbes : (from_id(i) # NotFound) <=> (i \in 0..10)
    /\ \A i, j \in 0..10 : i # j => from_id(i) # from_id(j)
    /\ \A i \in 0..10 :
         /\ from_id(i) \in Models
         /\ num_params(from_id(i)) = SpecParamCounts[i + 1]
         /\ from_name(ModelNames[i + 1]) = from_id(i)
    /\ \A j \in DOMAIN NameProbes :
         (from_name(NameProbes[j]) # NotFound) <=> (j <= 11)
    /\ (Damaged("model_id") /\ Finished /\ damage.j \notin 0..10)
         => status = "InvalidData" /\ returned = <<>>
    /\ (Damaged("model_id") /\ damage.j \in 0..10 /\ decoded = damage.i)
         => LET cam == map[CameraCatalog[section[damage.i]].id]
            IN  /\ cam.model = from_id(damage.j)
                /\ Len(cam.params) = SpecParamCounts[damage.j + 1]
    /\ (Damaged("model_name") /\ Finished /\ damage.j > 11)
         => status = "InvalidData" /\ returned = <<>>

C9_Witness ==
    /\ Damaged("model_id") /\ damage.j = 99 /\ damage.i = 2
    /\ status = "InvalidData" /\ decoded = 1

ParallelLengths(m) ==
    \A k \in DOMAIN m :
        IF kind = "images" THEN Len(m[k].xys) = Len(m[k].point3d_ids)
        ELSE Len(m[k].image_ids) = Len(m[k].point2d_idxs)

\* A point line of the source whose track tail has an odd number of tokens.
OddTrackLine ==
    \E i \in 1..Len(LinesFrom(src, 0)) :
        LET parts == split_whitespace(LinesFrom(src, 0)[i])
        IN  /\ ~starts_with_hash(LinesFrom(src, 0)[i])
            /\ Len(parts) >= 8
            /\ (Len(parts) - 8) % 2 = 1

\* (C10) Every image of the map of read_images has as many xys as
\* point3d_ids, and every point of the map of read_points3d as many
\* image_ids as point2d_idxs, on both paths; a text point line with an odd
\* track tail ends the call with InvalidData and no mapping.
C10_ParallelSequences ==
    kind \in {"images", "points3d"} =>
      /\ ParallelLengths(map)
      /\ returned # <<>> => ParallelLengths(returned[1])
      /\ (kind = "points3d" /\ ~binary /\ Finished /\ OddTrackLine)
            => status = "InvalidData" /\ returned = <<>>

C10_Witness ==
    /\ kind = "points3d" /\ ~binary /\ Damaged("extra") /\ OddTrackLine
    /\ status = "InvalidData" /\ decoded = 1

=============================================================================
